---- MODULE Spec2Model ----
(***************************************************************************)
(* FrameFill: a browser tool that composites an uploaded image onto a      *)
(* sized canvas with a colour or blurred-image background and a border,    *)
(* previews it live and exports it as a PNG.                                *)
(*                                                                         *)
(* The model follows the event loop of the page: every action is one task  *)
(* (a DOM event handler, a FileReader / Image / toBlob callback) run to     *)
(* completion.  Canvas contexts are modelled by the calls issued on them.   *)
(***************************************************************************)
EXTENDS Integers, Sequences, FiniteSets, TLC

(***************************************************************************)
(* JavaScript numbers: IEEE 754 doubles, NaN and +-Infinity.  A finite     *)
(* double is written  n/d + (en/ed) * 2^(-ex) :  the reduced fraction n/d   *)
(* that exact arithmetic would have given, plus the rounding error the      *)
(* operations so far have left (en = 0 when there is none).  Every          *)
(* operation computes its exact result and rounds it to the nearest double  *)
(* (53 significant bits, ties to even).  The fractions of this program are  *)
(* small and their errors a few units in the last place, so the order of    *)
(* two numbers with different fractions is the order of the fractions.      *)
(***************************************************************************)
RECURSIVE Gcd(_, _)
Gcd(a, b) == IF b = 0 THEN a ELSE Gcd(b, a % b)

Abs(n) == IF n < 0 THEN -n ELSE n

Sign(n) == IF n > 0 THEN 1 ELSE IF n < 0 THEN -1 ELSE 0

Pow2(k) == 2^k

\* h^2 mod m
SquareMod(h, m) == (h * h) % m

\* 2^p mod m, by repeated squaring
RECURSIVE Pow2Mod(_, _)
Pow2Mod(p, m) ==
    IF p = 0 THEN 1 % m
    ELSE IF p % 2 = 0 THEN SquareMod(Pow2Mod(p \div 2, m), m)
    ELSE (2 * SquareMod(Pow2Mod(p \div 2, m), m)) % m

\* (a * 2^p) mod m
ShiftMod(a, p, m) == ((a % m) * Pow2Mod(p, m)) % m

\* floor(log2(n/d)) for n, d > 0
RECURSIVE Log2Floor(_, _)
Log2Floor(n, d) ==
    IF n < d THEN Log2Floor(2 * n, d) - 1
    ELSE IF n < 2 * d THEN 0
    ELSE Log2Floor(n, 2 * d) + 1

RECURSIVE IsPow2(_)
IsPow2(d) == d = 1 \/ (d % 2 = 0 /\ IsPow2(d \div 2))

\* how many times 2 divides n (n # 0)
RECURSIVE Twos(_)
Twos(n) == IF n % 2 # 0 THEN 0 ELSE 1 + Twos(n \div 2)

\* the double that is exactly n/d, g being the greatest common divisor of n and d
Ratio(n, d, g) == [k |-> "fin", n |-> n \div g, d |-> d \div g, en |-> 0, ed |-> 1, ex |-> 0]

\* the double a + (en/ed) * 2^(-ex) for en/ed reduced, tn and td being the
\* powers of two in en and ed: these go into the exponent
WithError(a, en, ed, tn, td, ex) ==
    [a EXCEPT !.en = en \div Pow2(tn), !.ed = ed \div Pow2(td), !.ex = ex - tn + td]

\* the double n/d + (en/ed) * 2^(-ex), with the fractions reduced and the
\* powers of two of en/ed moved into the exponent
Dbl(n, d, en, ed, ex) ==
    IF en = 0 THEN Ratio(n, d, Gcd(Abs(n), d))
    ELSE WithError(Ratio(n, d, Gcd(Abs(n), d)),
                   en \div Gcd(Abs(en), ed), ed \div Gcd(Abs(en), ed),
                   Twos(en \div Gcd(Abs(en), ed)), Twos(ed \div Gcd(Abs(en), ed)), ex)

Fin(n, d) == Dbl(n, d, 0, 1, 0)

I(n) == [k |-> "fin", n |-> n, d |-> 1, en |-> 0, ed |-> 1, ex |-> 0]

NaN == [k |-> "nan", n |-> 0, d |-> 1, en |-> 0, ed |-> 1, ex |-> 0]

Inf(sign) == [k |-> "inf", n |-> sign, d |-> 1, en |-> 0, ed |-> 1, ex |-> 0]

IsNaN(a) == a.k = "nan"

IsFinite(a) == a.k = "fin"

IsInteger(a) == a.k = "fin" /\ a.d = 1 /\ a.en = 0

\* the sign of a number that is not NaN
SignOf(a) == IF a.n # 0 THEN Sign(a.n) ELSE Sign(a.en)

\* floor(log2) of bn/bd + (cn/cd) * 2^(-x) for bn > 0, e0 being that of bn/bd:
\* one less when bn/bd is a power of two and the error is negative
ExponentBelow(bn, bd, cn, e0) ==
    IF cn < 0 /\ (IF e0 >= 0 THEN bn = bd * Pow2(e0) ELSE bn * Pow2(-e0) = bd)
    THEN e0 - 1
    ELSE e0

Exponent(bn, bd, cn) == ExponentBelow(bn, bd, cn, Log2Floor(bn, bd))

\* round-half-even of i + sn/sd, less i, for an integer i of the parity given
RoundHalfEven(sn, sd, odd) ==
    IF 2 * (sn % sd) < sd THEN sn \div sd
    ELSE IF 2 * (sn % sd) > sd THEN sn \div sd + 1
    ELSE IF (odd + sn \div sd) % 2 = 0 THEN sn \div sd ELSE sn \div sd + 1

\* RoundSum, g being the greatest common divisor of bd and td
RoundNearest(bn, bd, r, odd, tn, td, g, p) ==
    Dbl(bn, bd,
        RoundHalfEven(r * (td \div g) + tn * (bd \div g), bd * (td \div g), odd) * bd - r,
        bd, p)

\* the double nearest to (i + r/bd + tn/td) * 2^(-p), for an integer i with
\* i + r/bd = (bn/bd) * 2^p, written as bn/bd plus its error
RoundSum(bn, bd, r, odd, tn, td, p) ==
    RoundNearest(bn, bd, r, odd, tn, td, Gcd(bd, td), p)

\* RoundBits, m being (bn * 2^p) mod 2 bd
RoundScaled(bn, bd, cn, cd, x, p, m) ==
    RoundSum(bn, bd, m % bd, m \div bd,
             IF cn = 0 THEN 0 ELSE IF p >= x THEN cn * Pow2(p - x) ELSE cn,
             IF cn = 0 THEN 1 ELSE IF p >= x THEN cd ELSE cd * Pow2(x - p),
             p)

\* the double nearest to bn/bd + (cn/cd) * 2^(-x) that has p fraction bits
RoundBits(bn, bd, cn, cd, x, p) ==
    RoundScaled(bn, bd, cn, cd, x, p, ShiftMod(bn, p, 2 * bd))

\* the double nearest to bn/bd + (cn/cd) * 2^(-x), for bn > 0 and bd, cd > 0:
\* 53 significant bits, so 52 - floor(log2) fraction bits
RoundPositive(bn, bd, cn, cd, x) ==
    RoundBits(bn, bd, cn, cd, x, 52 - Exponent(bn, bd, cn))

\* s * m for a sign s
Signed(s, m) == [m EXCEPT !.n = s * m.n, !.en = s * m.en]

\* RoundToDouble, g and h being the greatest common divisors of bn, bd and of cn, cd
RoundReduced(bn, bd, cn, cd, x, g, h) ==
    IF cn = 0 /\ IsPow2(bd \div g) THEN Ratio(bn, bd, g)
    ELSE IF bn = 0 THEN Dbl(0, 1, cn, cd, x)
    ELSE Signed(Sign(bn),
                RoundPositive(Abs(bn) \div g, bd \div g,
                              (Sign(bn) * cn) \div h, cd \div h, x))

\* the double nearest to bn/bd + (cn/cd) * 2^(-x)
RoundToDouble(bn, bd, cn, cd, x) ==
    RoundReduced(bn, bd, cn, cd, x, Gcd(Abs(bn), bd), Gcd(Abs(cn), cd))

\* a / b  (the divisors of this program are exact: integers)
NumDiv(a, b) ==
    IF IsNaN(a) \/ IsNaN(b) THEN NaN
    ELSE IF a.k = "inf" /\ b.k = "inf" THEN NaN
    ELSE IF a.k = "inf" THEN Inf(IF SignOf(b) < 0 THEN -a.n ELSE a.n)
    ELSE IF b.k = "inf" THEN I(0)
    ELSE IF b.n = 0 /\ b.en = 0
         THEN (IF a.n = 0 /\ a.en = 0 THEN NaN ELSE Inf(SignOf(a)))
    ELSE CASE b.en = 0 ->
              RoundToDouble(a.n * b.d * Sign(b.n), a.d * Abs(b.n),
                            a.en * b.d * Sign(b.n), a.ed * Abs(b.n), a.ex)

\* a * b  (at most one factor of a product of this program is inexact)
NumMul(a, b) ==
    IF IsNaN(a) \/ IsNaN(b) THEN NaN
    ELSE IF a.k = "inf" \/ b.k = "inf"
         THEN (IF SignOf(a) = 0 \/ SignOf(b) = 0 THEN NaN
               ELSE Inf(SignOf(a) * SignOf(b)))
    ELSE CASE b.en = 0 \/ a.en = 0 ->
              RoundToDouble(a.n * b.n, a.d * b.d,
                            IF b.en = 0 THEN a.en * b.n ELSE b.en * a.n,
                            IF b.en = 0 THEN a.ed * b.d ELSE b.ed * a.d,
                            IF b.en = 0 THEN a.ex ELSE b.ex)

\* the error numerator en of exponent ex, written with the exponent x >= ex
Aligned(en, ex, x) == IF en = 0 THEN 0 ELSE en * Pow2(x - ex)

\* a + b for finite a and b, x being the larger of their error exponents
AddAligned(a, b, x) ==
    RoundToDouble(a.n * b.d + b.n * a.d, a.d * b.d,
                  Aligned(a.en, a.ex, x) * b.ed + Aligned(b.en, b.ex, x) * a.ed,
                  a.ed * b.ed, x)

\* a + b
NumAdd(a, b) ==
    IF IsNaN(a) \/ IsNaN(b) THEN NaN
    ELSE IF a.k = "inf" /\ b.k = "inf" THEN (IF a.n = b.n THEN a ELSE NaN)
    ELSE IF a.k = "inf" THEN a
    ELSE IF b.k = "inf" THEN b
    ELSE AddAligned(a, b, IF a.ex > b.ex THEN a.ex ELSE b.ex)

NumNeg(a) == IF IsNaN(a) THEN NaN ELSE [a EXCEPT !.n = -a.n, !.en = -a.en]

\* a - b
NumSub(a, b) == NumAdd(a, NumNeg(b))

\* a > b for finite a and b of the same fraction, x being the larger of their
\* error exponents
GtAligned(a, b, x) ==
    Aligned(a.en, a.ex, x) * b.ed > Aligned(b.en, b.ex, x) * a.ed

\* a > b   (false when either side is NaN)
NumGt(a, b) ==
    IF IsNaN(a) \/ IsNaN(b) THEN FALSE
    ELSE IF a.k = "inf" THEN a.n = 1 /\ ~(b.k = "inf" /\ b.n = 1)
    ELSE IF b.k = "inf" THEN b.n = -1
    ELSE IF a.n * b.d # b.n * a.d THEN a.n * b.d > b.n * a.d
    ELSE GtAligned(a, b, IF a.ex > b.ex THEN a.ex ELSE b.ex)

\* a >= b
NumGe(a, b) == ~IsNaN(a) /\ ~IsNaN(b) /\ (a = b \/ NumGt(a, b))

\* Math.max(a, b)
MathMax(a, b) ==
    IF IsNaN(a) \/ IsNaN(b) THEN NaN
    ELSE IF NumGt(b, a) THEN b ELSE a

\* Math.floor(a)
MathFloor(a) ==
    IF a.k # "fin" THEN a
    ELSE IF a.n % a.d = 0 /\ a.en < 0 THEN I(a.n \div a.d - 1)
    ELSE I(a.n \div a.d)

\* Math.round(a): the integer nearest to a, halves rounded up: floor(a + 1/2)
MathRound(a) ==
    IF a.k # "fin" THEN a
    ELSE IF (2 * a.n + a.d) % (2 * a.d) = 0 /\ a.en < 0
         THEN I((2 * a.n + a.d) \div (2 * a.d) - 1)
    ELSE I((2 * a.n + a.d) \div (2 * a.d))

(***************************************************************************)
(* Control values are texts: sequences of characters.                      *)
(***************************************************************************)
DigitChars == {"0", "1", "2", "3", "4", "5", "6", "7", "8", "9"}

DigitValue(c) ==
    CASE c = "0" -> 0 [] c = "1" -> 1 [] c = "2" -> 2 [] c = "3" -> 3
      [] c = "4" -> 4 [] c = "5" -> 5 [] c = "6" -> 6 [] c = "7" -> 7
      [] c = "8" -> 8 [] c = "9" -> 9

RECURSIVE DigitsToInt(_, _)
\* the value of the decimal digits s[1..k]
DigitsToInt(s, k) ==
    IF k = 0 THEN 0 ELSE 10 * DigitsToInt(s, k - 1) + DigitValue(s[k])

\* the length of the longest prefix of s made of digits
DigitPrefixLen(s) ==
    CHOOSE k \in 0..Len(s) :
        /\ \A i \in 1..k : s[i] \in DigitChars
        /\ (k = Len(s) \/ s[k + 1] \notin DigitChars)

\* parseInt(s): optional sign, then the leading decimal digits; NaN if none
parseInt(s) ==
    LET neg  == Len(s) > 0 /\ s[1] = "-"
        body == IF Len(s) > 0 /\ s[1] \in {"-", "+"} THEN Tail(s) ELSE s
        k    == DigitPrefixLen(body)
    IN  IF k = 0 THEN NaN
        ELSE I((IF neg THEN -1 ELSE 1) * DigitsToInt(body, k))

(***************************************************************************)
(* Bounds of the model and sample inputs.                                  *)
(***************************************************************************)
\* uploads started in one run
MaxUploads == 2

\* downloads whose encoding is pending at the same time
MaxDownloads == 2

Null == 0

UploadIds == 1..MaxUploads

DownloadSlots == 1..MaxDownloads

\* tasks (events and callbacks) handled in one run
MaxEvents == 7

\* what a number input can hold: a valid floating-point number or nothing
WidthTexts == { <<"8","0","0">>, <<"4","0","1">>, <<>> }

HeightTexts == { <<"6","0","0">>, <<"5","0">> }

SizeTexts(field) == IF field = "width" THEN WidthTexts ELSE HeightTexts

BorderTexts == { <<"1","0">>, <<"0">>, <<"5">>, <<"5","1">>, <<>> }

\* what the range input (min 25, max 200, step 5) can hold
ScaleTexts == { <<"1","0","0">>, <<"1","5","0">> }

\* what a colour control can hold when its input event fires: colours, and a
\* text that is no colour (the handlers validate what they are given)
White == <<"#","f","f","f","f","f","f">>

Black == <<"#","0","0","0","0","0","0">>

Colors == { White, <<"#","f","f","0","0","0","0">>, <<"f","f","f","f","f","f">> }

BackgroundTypes == { "color", "image" }

\* natural sizes of the images uploaded
ImageSizes == { <<200, 150>>, <<1000, 300>> }

(***************************************************************************)
(* uiControls.js: validation and the settings the controls hold.           *)
(***************************************************************************)
MIN_SIZE == 100
MAX_SIZE == 2000
MIN_SCALE == 25
MAX_SCALE == 200
MIN_BORDER_WIDTH == 0
MAX_BORDER_WIDTH == 50

validateSizeInput(value) ==
    IF IsNaN(value) \/ value # MathFloor(value) THEN FALSE
    ELSE NumGe(value, I(MIN_SIZE)) /\ NumGe(I(MAX_SIZE), value)

validateBorderWidth(value) ==
    IF IsNaN(value) \/ value # MathFloor(value) THEN FALSE
    ELSE NumGe(value, I(MIN_BORDER_WIDTH)) /\ NumGe(I(MAX_BORDER_WIDTH), value)

getBackgroundType(c) == IF c.bgType = "color" THEN "color" ELSE "image"

getBorderSettings(c) ==
    [width |-> parseInt(c.borderWidth), color |-> c.borderColor]

getCanvasSettings(c) ==
    [width           |-> parseInt(c.width),
     height          |-> parseInt(c.height),
     scale           |-> parseInt(c.scale),
     backgroundColor |-> c.bgColor,
     backgroundType  |-> getBackgroundType(c),
     border          |-> getBorderSettings(c)]

(***************************************************************************)
(* A canvas: its size, the state of its 2D context, and the calls issued   *)
(* on the context since the canvas was last sized.                         *)
(***************************************************************************)
\* the value a canvas width/height attribute takes when v is assigned to it
CanvasDim(v, dflt) ==
    IF v.k # "fin" THEN 0
    ELSE LET t == IF v.n >= 0 THEN v.n \div v.d ELSE -((-v.n) \div v.d)
         IN  IF t >= 0 /\ t <= 2147483647 THEN t ELSE dflt

FreshCanvas ==
    [width |-> 300, height |-> 150,
     filter |-> "none", fillStyle |-> Black, strokeStyle |-> Black,
     lineWidth |-> I(1), calls |-> <<>>, threw |-> FALSE]

\* one call on the context, with the state it executes in
Call(cv, op, by, image, decoded, x, y, w, h) ==
    [op |-> op, by |-> by, image |-> image, decoded |-> decoded,
     x |-> x, y |-> y, w |-> w, h |-> h,
     filter |-> cv.filter, fillStyle |-> cv.fillStyle,
     strokeStyle |-> cv.strokeStyle, lineWidth |-> cv.lineWidth,
     cw |-> cv.width, ch |-> cv.height]

Issue(cv, op, by, image, decoded, x, y, w, h) ==
    [cv EXCEPT !.calls = Append(@, Call(cv, op, by, image, decoded, x, y, w, h))]

\* canvas.width = width; canvas.height = height  (assigning resets the context)
SetCanvasSize(cv, by, width, height) ==
    LET sized == [FreshCanvas EXCEPT !.width  = CanvasDim(width, 300),
                                     !.height = CanvasDim(height, 150),
                                     !.calls  = cv.calls,
                                     !.threw  = cv.threw]
    IN  Issue(sized, "resize", by, Null, "none", I(0), I(0), width, height)

\* image.width / image.height: the natural size once decoded, 0 before
ImageWidth(images, image) ==
    IF images[image].state = "loaded" THEN I(images[image].w) ELSE I(0)

ImageHeight(images, image) ==
    IF images[image].state = "loaded" THEN I(images[image].h) ELSE I(0)

DecodeState(images, image) ==
    IF image = Null THEN "none" ELSE images[image].state

(***************************************************************************)
(* canvasRenderer.js                                                       *)
(***************************************************************************)
\* updateCanvasDimensions on a canvas whose context would keep its state
\* (fill and stroke style, line width, filter) across the assignment
updateCanvasDimensions_keepContext(cv, width, height) ==
    Issue([cv EXCEPT !.width = CanvasDim(width, 300), !.height = CanvasDim(height, 150)],
          "resize", "updateCanvasDimensions", Null, "none", I(0), I(0), width, height)

updateCanvasDimensions(cv, width, height) ==
    SetCanvasSize(cv, "updateCanvasDimensions", width, height)

drawBackground(cv, color, width, height) ==
    Issue([Issue(cv, "clearRect", "drawBackground", Null, "none",
                 I(0), I(0), width, height)
             EXCEPT !.fillStyle = color],
          "fillRect", "drawBackground", Null, "none", I(0), I(0), width, height)

\* calculateScaledDimensions once scaleFactor = scale / 100 is known
ScaledBy(originalWidth, originalHeight, scaleFactor) ==
    [scaledWidth  |-> MathRound(NumMul(originalWidth, scaleFactor)),
     scaledHeight |-> MathRound(NumMul(originalHeight, scaleFactor))]

calculateScaledDimensions(originalWidth, originalHeight, scale) ==
    ScaledBy(originalWidth, originalHeight, NumDiv(scale, I(100)))

calculateCenterPosition(canvasWidth, canvasHeight, imageWidth, imageHeight) ==
    [x |-> MathRound(NumDiv(NumSub(canvasWidth, imageWidth), I(2))),
     y |-> MathRound(NumDiv(NumSub(canvasHeight, imageHeight), I(2)))]

calculateBlurScale(imageWidth, imageHeight, canvasWidth, canvasHeight) ==
    MathMax(NumDiv(canvasWidth, imageWidth), NumDiv(canvasHeight, imageHeight))

\* the drawImage of drawBlurredBackground once scaledWidth and scaledHeight are known
BlurredAtSize(cv, images, image, canvasWidth, canvasHeight, scaledWidth, scaledHeight) ==
    Issue(cv, "drawImage", "drawBlurredBackground", image, DecodeState(images, image),
          NumDiv(NumSub(canvasWidth, scaledWidth), I(2)),
          NumDiv(NumSub(canvasHeight, scaledHeight), I(2)),
          scaledWidth, scaledHeight)

\* the drawImage of drawBlurredBackground once scale is known
BlurredAtScale(cv, images, image, canvasWidth, canvasHeight, scale) ==
    BlurredAtSize(cv, images, image, canvasWidth, canvasHeight,
                  NumMul(ImageWidth(images, image), scale),
                  NumMul(ImageHeight(images, image), scale))

\* drawBlurredBackground up to its drawImage: clearRect, the blur filter, the
\* cover scale and the draw
BlurredDraw(cv, images, image, canvasWidth, canvasHeight) ==
    BlurredAtScale([Issue(cv, "clearRect", "drawBlurredBackground", Null, "none",
                          I(0), I(0), canvasWidth, canvasHeight)
                      EXCEPT !.filter = "blur(10px)"],
                   images, image, canvasWidth, canvasHeight,
                   calculateBlurScale(ImageWidth(images, image),
                                      ImageHeight(images, image),
                                      canvasWidth, canvasHeight))

\* drawBlurredBackground without the reset of the filter after the draw
drawBlurredBackground_noReset(cv, images, image, canvasWidth, canvasHeight) ==
    IF image = Null THEN cv
    ELSE BlurredDraw(cv, images, image, canvasWidth, canvasHeight)

drawBlurredBackground(cv, images, image, canvasWidth, canvasHeight) ==
    IF image = Null THEN cv
    ELSE [BlurredDraw(cv, images, image, canvasWidth, canvasHeight)
            EXCEPT !.filter = "none"]

\* drawBackgroundByType choosing by the type alone, whether or not an image is there
drawBackgroundByType_typeOnly(cv, images, backgroundType, backgroundColor, image, canvasWidth, canvasHeight) ==
    IF backgroundType = "image"
    THEN drawBlurredBackground(cv, images, image, canvasWidth, canvasHeight)
    ELSE drawBackground(cv, backgroundColor, canvasWidth, canvasHeight)

\* drawBackgroundByType: the blurred image when the type is 'image' and an image
\* was handed in, the colour fill otherwise
drawBackgroundByType(cv, images, backgroundType, backgroundColor, image, canvasWidth, canvasHeight) ==
    IF backgroundType = "image" /\ image # Null
    THEN drawBlurredBackground(cv, images, image, canvasWidth, canvasHeight)
    ELSE drawBackground(cv, backgroundColor, canvasWidth, canvasHeight)

\* drawImageBorder with the stroke outset by the whole border width
drawImageBorder_outset(cv, imagePosition, imageSize, borderSettings) ==
    IF borderSettings.width = I(0) THEN cv
    ELSE Issue([cv EXCEPT !.strokeStyle = borderSettings.color,
                          !.lineWidth = borderSettings.width],
               "strokeRect", "drawImageBorder", Null, "none",
               NumSub(imagePosition.x, borderSettings.width),
               NumSub(imagePosition.y, borderSettings.width),
               NumAdd(imageSize.width, NumMul(I(2), borderSettings.width)),
               NumAdd(imageSize.height, NumMul(I(2), borderSettings.width)))

drawImageBorder(cv, imagePosition, imageSize, borderSettings) ==
    IF borderSettings.width = I(0) THEN cv
    ELSE Issue([cv EXCEPT !.strokeStyle = borderSettings.color,
                          !.lineWidth = borderSettings.width],
               "strokeRect", "drawImageBorder", Null, "none",
               NumSub(imagePosition.x, NumDiv(borderSettings.width, I(2))),
               NumSub(imagePosition.y, NumDiv(borderSettings.width, I(2))),
               NumAdd(imageSize.width, borderSettings.width),
               NumAdd(imageSize.height, borderSettings.width))

\* the drawImage of drawImageOnCanvas once the position is known
ImageAt(cv, images, image, pos, dims) ==
    Issue(cv, "drawImage", "drawImageOnCanvas", image, DecodeState(images, image),
          pos.x, pos.y, dims.scaledWidth, dims.scaledHeight)

\* the drawImage of drawImageOnCanvas once the scaled dimensions are known
ImageScaled(cv, images, image, canvasWidth, canvasHeight, dims) ==
    ImageAt(cv, images, image,
            calculateCenterPosition(canvasWidth, canvasHeight,
                                    dims.scaledWidth, dims.scaledHeight),
            dims)

drawImageOnCanvas(cv, images, image, scale, canvasWidth, canvasHeight) ==
    IF image = Null THEN cv
    ELSE ImageScaled(cv, images, image, canvasWidth, canvasHeight,
                     calculateScaledDimensions(ImageWidth(images, image),
                                               ImageHeight(images, image), scale))

\* the border of updatePreview: drawn on the canvas c1 that holds the image,
\* when the border width is positive
ForegroundBorder(c1, settings, imagePosition, dims) ==
    IF NumGt(settings.border.width, I(0))
    THEN drawImageBorder(c1, imagePosition,
                         [width |-> dims.scaledWidth, height |-> dims.scaledHeight],
                         settings.border)
    ELSE c1

\* the part of updatePreview that runs when an image is there, once the scaled
\* dimensions are known
ForegroundScaled(cv, images, settings, image, dims) ==
    ForegroundBorder(drawImageOnCanvas(cv, images, image, settings.scale,
                                       settings.width, settings.height),
                     settings,
                     calculateCenterPosition(settings.width, settings.height,
                                             dims.scaledWidth, dims.scaledHeight),
                     dims)

\* the part of updatePreview that runs when an image is there
drawForeground(cv, images, settings, image) ==
    IF image = Null THEN [cv EXCEPT !.threw = TRUE]   \* image.width of null
    ELSE ForegroundScaled(cv, images, settings, image,
                          calculateScaledDimensions(ImageWidth(images, image),
                                                    ImageHeight(images, image),
                                                    settings.scale))

\* updatePreview drawing the image without looking whether there is one
hasImage_unchecked(image, uploaded) == TRUE

\* whether updatePreview draws the image
hasImage(image, uploaded) == image # Null /\ uploaded # Null

\* updatePreview after the background: the image and its border when there is one
PreviewForeground(c2, settings, images, image, uploaded) ==
    IF hasImage(image, uploaded)
    THEN drawForeground(c2, images, settings, image)
    ELSE c2

\* updatePreview with the settings read, on the canvas c0 with no calls yet
PreviewWith(c0, settings, images, image, uploaded) ==
    PreviewForeground(
        drawBackgroundByType(updateCanvasDimensions(c0, settings.width, settings.height),
                             images, settings.backgroundType,
                             settings.backgroundColor, image,
                             settings.width, settings.height),
        settings, images, image, uploaded)

\* updatePreview drawing the background after the image and its border
updatePreview_backgroundLast(cv, c, images, image, uploaded) ==
    LET settings == getCanvasSettings(c)
        c0 == [cv EXCEPT !.calls = <<>>, !.threw = FALSE]
        c1 == updateCanvasDimensions(c0, settings.width, settings.height)
        c2 == IF hasImage(image, uploaded)
              THEN drawForeground(c1, images, settings, image)
              ELSE c1
    IN  drawBackgroundByType(c2, images, settings.backgroundType,
                             settings.backgroundColor, image,
                             settings.width, settings.height)

\* updatePreview on the preview canvas cv: the canvas it leaves, with the calls
\* of this render
updatePreview(cv, c, images, image, uploaded) ==
    PreviewWith([cv EXCEPT !.calls = <<>>, !.threw = FALSE], getCanvasSettings(c),
                images, image, uploaded)

(***************************************************************************)
(* downloadManager.js                                                      *)
(***************************************************************************)
createDownloadCanvas(settings) ==
    SetCanvasSize(FreshCanvas, "createDownloadCanvas", settings.width, settings.height)

\* the drawImage of renderToDownloadCanvas once the scaled size is known
DownloadAtSize(c3, images, image, settings, scaledWidth, scaledHeight) ==
    Issue(c3, "drawImage", "renderToDownloadCanvas", image, DecodeState(images, image),
          MathRound(NumDiv(NumSub(settings.width, scaledWidth), I(2))),
          MathRound(NumDiv(NumSub(settings.height, scaledHeight), I(2))),
          scaledWidth, scaledHeight)

\* the drawImage of renderToDownloadCanvas once scaleFactor is known
DownloadAtScale(c3, images, image, settings, scaleFactor) ==
    DownloadAtSize(c3, images, image, settings,
                   MathRound(NumMul(ImageWidth(images, image), scaleFactor)),
                   MathRound(NumMul(ImageHeight(images, image), scaleFactor)))

\* renderToDownloadCanvas after the background fill, on the canvas c3 that holds it
DownloadForeground(c3, images, image, settings) ==
    IF image = Null THEN [c3 EXCEPT !.threw = TRUE]   \* image.width of null
    ELSE DownloadAtScale(c3, images, image, settings, NumDiv(settings.scale, I(100)))

renderToDownloadCanvas(cv, images, image, settings) ==
    DownloadForeground(
        Issue([Issue(cv, "clearRect", "renderToDownloadCanvas", Null, "none",
                     I(0), I(0), settings.width, settings.height)
                 EXCEPT !.fillStyle = settings.backgroundColor],
              "fillRect", "renderToDownloadCanvas", Null, "none",
              I(0), I(0), settings.width, settings.height),
        images, image, settings)

(***************************************************************************)
(* imageProcessor.js: file validation.                                     *)
(***************************************************************************)
MAX_FILE_SIZE == 5242880

ALLOWED_TYPES == {"image/jpeg", "image/jpg", "image/png", "image/gif", "image/webp"}

\* the files the user selects
Files ==
    [type : {"image/png", "text/plain"},
     size : {1024, MAX_FILE_SIZE, MAX_FILE_SIZE + 1}]

\* validateImageFile without its test of the size
validateImageFile_typeOnly(file) == file.type \in ALLOWED_TYPES

validateImageFile(file) ==
    IF file.type \notin ALLOWED_TYPES THEN FALSE
    ELSE IF file.size > MAX_FILE_SIZE THEN FALSE
    ELSE TRUE

(***************************************************************************)
(* The state of the page.                                                  *)
(***************************************************************************)
VARIABLES
    controls,        \* the value of every form control
    focus,           \* the number input that has the focus, or "none"
    uploadedImage,   \* imageProcessor.js: the data URL of the upload, or Null
    imageElement,    \* imageProcessor.js: the Image element, or Null
    images,          \* the Image elements created, by upload
    uploads,         \* where every upload started stands
    preview,         \* the preview canvas and what its last render read
    downloads,       \* the downloads whose encoding is pending
    downloadEnabled, \* whether the download button is enabled
    promptShown,     \* whether the upload prompt (and not the canvas) is shown
    alerts,          \* the alerts the last handler showed
    errors,          \* what the last handler wrote with console.error
    click,           \* the last run of handleDownloadClick, and how many ran
    files,           \* the files triggerDownload saved, in order
    failed,          \* the runs of handleDownloadClick whose encoding gave no blob
    geo,             \* the geometry functions called on their own: input and result
    previewDownloadCalls, \* the calls of window.enablePreviewDownloadButton so far
    events           \* the tasks handled so far

vars == <<controls, focus, uploadedImage, imageElement, images, uploads,
          preview, downloads, downloadEnabled, promptShown, alerts, errors,
          click, files, failed, geo, previewDownloadCalls, events>>

NoImage == [state |-> "none", w |-> 0, h |-> 0]

NoDownload == [status |-> "free"]

DefaultControls ==
    [width       |-> <<"8","0","0">>,
     height      |-> <<"6","0","0">>,
     scale       |-> <<"1","0","0">>,
     bgColor     |-> White,
     bgType      |-> "color",
     borderWidth |-> <<"1","0">>,
     borderColor |-> White]

\* the preview canvas as the page declares it
PageCanvas == [FreshCanvas EXCEPT !.width = 800, !.height = 600]

\* one run of updatePreview: the canvas it leaves and what it read
PreviewRender(cv, c, imgs, image, uploaded) ==
    [cv       |-> updatePreview(cv, c, imgs, image, uploaded),
     settings |-> getCanvasSettings(c),
     image    |-> image,
     uploaded |-> uploaded,
     decoded  |-> DecodeState(imgs, image)]

\* no run of handleDownloadClick yet
NoClick == [n |-> 0, canvas |-> FALSE, encoding |-> FALSE]

\* no geometry function called on its own
NoGeo == [fn |-> "none"]

\* the synchronous part of run n of handleDownloadClick once an image is there
DownloadRender(c, imgs, image, uploaded, n) ==
    LET settings == getCanvasSettings(c)
        canvas   == createDownloadCanvas(settings)
    IN  [status   |-> "encoding",
         click    |-> n,
         cv       |-> renderToDownloadCanvas(canvas, imgs, image, settings),
         settings |-> settings,
         image    |-> image,
         uploaded |-> uploaded,
         decoded  |-> DecodeState(imgs, image)]

\* initializeApp: bind the events, render the empty preview, show the prompt
PageInit ==
    /\ controls = DefaultControls
    /\ focus = "none"
    /\ uploadedImage = Null
    /\ imageElement = Null
    /\ images = [u \in UploadIds |-> NoImage]
    /\ uploads = [u \in UploadIds |-> "idle"]
    /\ preview = PreviewRender(PageCanvas, DefaultControls,
                               [u \in UploadIds |-> NoImage], Null, Null)
    /\ downloads = [k \in DownloadSlots |-> NoDownload]
    /\ downloadEnabled = FALSE
    /\ promptShown = TRUE
    /\ alerts = <<>>
    /\ errors = <<>>
    /\ click = NoClick
    /\ files = <<>>
    /\ failed = {}
    /\ previewDownloadCalls = 0
    /\ events = 0

Init == PageInit /\ geo = NoGeo

\* one more task is handled
Tick == events < MaxEvents /\ events' = events + 1

(***************************************************************************)
(* uiControls.js: the handlers.  Each yields the controls, the preview and *)
(* the alerts it leaves.                                                   *)
(***************************************************************************)
Outcome(c, p, a) == [controls |-> c, preview |-> p, alerts |-> a]

Rerender(c) == PreviewRender(preview.cv, c, images, imageElement, uploadedImage)

\* handleSizeChange rendering whatever the input holds
handleSizeChange_unvalidated(c, field) == Outcome(c, Rerender(c), <<>>)

\* input event on the width or height input holding c[field]
handleSizeChange(c, field) ==
    LET value == parseInt(c[field])
    IN  IF ~IsNaN(value) /\ validateSizeInput(value)
        THEN Outcome(c, Rerender(c), <<>>)
        ELSE Outcome(c, preview, <<>>)

\* handleSizeBlur resetting the control without rendering again
handleSizeBlur_noRerender(c, field) ==
    IF ~validateSizeInput(parseInt(c[field]))
    THEN Outcome([c EXCEPT ![field] = IF field = "width" THEN <<"8","0","0">>
                                                         ELSE <<"6","0","0">>],
                 preview,
                 <<"Size must be between 100-2000px and must be an integer.">>)
    ELSE Outcome(c, preview, <<>>)

\* blur event on the width or height input
handleSizeBlur(c, field) ==
    LET value == parseInt(c[field])
        reset == [c EXCEPT ![field] = IF field = "width" THEN <<"8","0","0">>
                                                         ELSE <<"6","0","0">>]
    IN  IF ~validateSizeInput(value)
        THEN Outcome(reset, Rerender(reset),
                     <<"Size must be between 100-2000px and must be an integer.">>)
        ELSE Outcome(c, preview, <<>>)

handleScaleChange(c) == Outcome(c, Rerender(c), <<>>)

HexChars == DigitChars \cup {"a", "b", "c", "d", "e", "f", "A", "B", "C", "D", "E", "F"}

validateColorInput(color) ==
    IF ~(Len(color) > 0 /\ color[1] = "#") THEN FALSE
    ELSE LET hexColor == Tail(color)
         IN  IF Len(hexColor) # 3 /\ Len(hexColor) # 6 THEN FALSE
             ELSE \A i \in 1..Len(hexColor) : hexColor[i] \in HexChars

handleColorChange(c) ==
    IF ~validateColorInput(c.bgColor)
    THEN Outcome([c EXCEPT !.bgColor = White], preview,
                 <<"Please select a valid color.">>)
    ELSE Outcome(c, Rerender(c), <<>>)

handleBackgroundTypeChange(c) == Outcome(c, Rerender(c), <<>>)

handleBorderWidthChange(c) ==
    LET value == parseInt(c.borderWidth)
    IN  IF ~IsNaN(value) /\ validateBorderWidth(value)
        THEN Outcome(c, Rerender(c), <<>>)
        ELSE Outcome(c, preview, <<>>)

handleBorderWidthBlur(c) ==
    LET value == parseInt(c.borderWidth)
        reset == [c EXCEPT !.borderWidth = <<"1","0">>]
    IN  IF ~validateBorderWidth(value)
        THEN Outcome(reset, Rerender(reset),
                     <<"Border width must be between 0-50px and must be an integer.">>)
        ELSE Outcome(c, preview, <<>>)

handleBorderColorChange(c) == Outcome(c, Rerender(c), <<>>)

\* the blur handler bound to a number input
BlurHandler(c, field) ==
    IF field = "borderWidth" THEN handleBorderWidthBlur(c)
    ELSE handleSizeBlur(c, field)

NumberInputs == {"width", "height", "borderWidth"}

Apply(out) ==
    /\ controls' = out.controls
    /\ preview' = out.preview
    /\ alerts' = out.alerts
    /\ errors' = <<>>

\* what no upload and no control touches
DownloadsUnchanged ==
    UNCHANGED <<downloads, click, files, failed, geo, previewDownloadCalls>>

UiUnchanged ==
    /\ UNCHANGED <<uploadedImage, imageElement, images, uploads,
                   downloadEnabled, promptShown>>
    /\ DownloadsUnchanged

\* the user moves the focus to a number input: the input that had it gets blur
FocusField(f) ==
    /\ Tick
    /\ f \in NumberInputs /\ f # focus
    /\ focus' = f
    /\ IF focus = "none"
       THEN UNCHANGED <<controls, preview>> /\ alerts' = <<>> /\ errors' = <<>>
       ELSE Apply(BlurHandler(controls, focus))
    /\ UiUnchanged

\* the focus leaves the number input that has it
BlurField ==
    /\ Tick
    /\ focus # "none"
    /\ focus' = "none"
    /\ Apply(BlurHandler(controls, focus))
    /\ UiUnchanged

\* the user edits the width or height input
TypeSize(f, t) ==
    /\ Tick
    /\ f \in {"width", "height"} /\ focus = f
    /\ t \in SizeTexts(f) /\ t # controls[f]
    /\ Apply(handleSizeChange([controls EXCEPT ![f] = t], f))
    /\ UNCHANGED focus
    /\ UiUnchanged

\* the user edits the border width input
TypeBorderWidth(t) ==
    /\ Tick
    /\ focus = "borderWidth"
    /\ t \in BorderTexts /\ t # controls.borderWidth
    /\ Apply(handleBorderWidthChange([controls EXCEPT !.borderWidth = t]))
    /\ UNCHANGED focus
    /\ UiUnchanged

\* the user moves the scale slider
SlideScale(t) ==
    /\ Tick
    /\ t \in ScaleTexts /\ t # controls.scale
    /\ Apply(handleScaleChange([controls EXCEPT !.scale = t]))
    /\ UNCHANGED focus
    /\ UiUnchanged

\* the user picks a background colour
PickColor(col) ==
    /\ Tick
    /\ col \in Colors /\ col # controls.bgColor
    /\ Apply(handleColorChange([controls EXCEPT !.bgColor = col]))
    /\ UNCHANGED focus
    /\ UiUnchanged

\* the user picks a border colour
PickBorderColor(col) ==
    /\ Tick
    /\ col \in Colors /\ col # controls.borderColor
    /\ Apply(handleBorderColorChange([controls EXCEPT !.borderColor = col]))
    /\ UNCHANGED focus
    /\ UiUnchanged

\* the user checks the other background type radio button
ChooseBackgroundType(t) ==
    /\ Tick
    /\ t \in BackgroundTypes /\ t # controls.bgType
    /\ Apply(handleBackgroundTypeChange([controls EXCEPT !.bgType = t]))
    /\ UNCHANGED focus
    /\ UiUnchanged

(***************************************************************************)
(* imageProcessor.js and app.js: uploads.                                  *)
(***************************************************************************)
\* the uploads not started yet
IdleUploads == {u \in UploadIds : uploads[u] = "idle"}

\* handleImageUpload up to its first await, and what its caller chains to it
\* when it returns at once
StartUpload(list) ==
    IF Len(list) = 0
    THEN \* no file: the promise resolves, the caller hides the prompt
         /\ promptShown' = FALSE
         /\ alerts' = <<>>
         /\ UNCHANGED uploads
    ELSE IF ~validateImageFile(list[1])
    THEN /\ alerts' = IF list[1].type \notin ALLOWED_TYPES
                      THEN <<"Please select a valid image file (JPG, PNG, GIF, WebP)">>
                      ELSE IF list[1].size > MAX_FILE_SIZE
                      THEN <<"File size exceeds 5MB limit. Please select a smaller file.">>
                      ELSE <<>>
         /\ promptShown' = FALSE
         /\ UNCHANGED uploads
    ELSE \* readFileAsDataURL starts reading
         /\ IdleUploads # {}
         /\ LET u == CHOOSE i \in IdleUploads : \A j \in IdleUploads : i <= j
            IN  uploads' = [uploads EXCEPT ![u] = "reading"]
         /\ alerts' = <<>>
         /\ UNCHANGED promptShown

\* change event of the file input
SelectFile(list) ==
    /\ Tick
    /\ StartUpload(list)
    /\ errors' = <<>>
    /\ UNCHANGED <<controls, focus, uploadedImage, imageElement, images,
                   preview, downloadEnabled>>
    /\ DownloadsUnchanged

\* drop event on the drop zone
DropFile(list) ==
    /\ Tick
    /\ Len(list) > 0
    /\ StartUpload(list)
    /\ errors' = <<>>
    /\ UNCHANGED <<controls, focus, uploadedImage, imageElement, images,
                   preview, downloadEnabled>>
    /\ DownloadsUnchanged

\* reader.onload: the data URL is there; the Image element is created and
\* starts loading it
ReadDone(u) ==
    /\ Tick
    /\ uploads[u] = "reading"
    /\ uploads' = [uploads EXCEPT ![u] = "decoding"]
    /\ imageElement' = u
    /\ images' = [images EXCEPT ![u] = [state |-> "loading", w |-> 0, h |-> 0]]
    /\ alerts' = <<>>
    /\ errors' = <<>>
    /\ UNCHANGED <<controls, focus, uploadedImage, preview,
                   downloadEnabled, promptShown>>
    /\ DownloadsUnchanged

\* reader.onerror: handleImageUpload catches, alerts and returns; the caller
\* hides the prompt
ReadFail(u) ==
    /\ Tick
    /\ uploads[u] = "reading"
    /\ uploads' = [uploads EXCEPT ![u] = "failed"]
    /\ alerts' = <<"File reading failed. Please try again.">>
    /\ errors' = <<"File reading error:">>
    /\ promptShown' = FALSE
    /\ UNCHANGED <<controls, focus, uploadedImage, imageElement, images,
                   preview, downloadEnabled>>
    /\ DownloadsUnchanged

\* onload of the Image element of upload u, decoded with natural size size
DecodeDone(u, size) ==
    /\ Tick
    /\ uploads[u] = "decoding"
    /\ size \in ImageSizes
    /\ uploads' = [uploads EXCEPT ![u] = "done"]
    /\ images' = [images EXCEPT ![u] = [state |-> "loaded", w |-> size[1], h |-> size[2]]]
    /\ uploadedImage' = u
    /\ downloadEnabled' = TRUE
    /\ preview' = PreviewRender(preview.cv, controls, images', imageElement, u)
    /\ promptShown' = FALSE
    /\ alerts' = <<>>
    /\ errors' = <<>>
    /\ UNCHANGED <<controls, focus, imageElement>>
    /\ DownloadsUnchanged

\* onerror of the Image element of upload u: the promise of handleImageUpload
\* is rejected and its caller logs the error
DecodeFail(u) ==
    /\ Tick
    /\ uploads[u] = "decoding"
    /\ uploads' = [uploads EXCEPT ![u] = "failed"]
    /\ images' = [images EXCEPT ![u] = [state |-> "broken", w |-> 0, h |-> 0]]
    /\ alerts' = <<"Image loading failed. Please try another file.">>
    /\ errors' = <<"Upload failed: Image load failed">>
    /\ UNCHANGED <<controls, focus, uploadedImage, imageElement, preview,
                   downloadEnabled, promptShown>>
    /\ DownloadsUnchanged

(***************************************************************************)
(* downloadManager.js: downloads.                                          *)
(***************************************************************************)
FreeSlots == {k \in DownloadSlots : downloads[k].status = "free"}

\* Date.now(): milliseconds since the epoch, kept as hi * 10^6 + lo
Millis(hi, lo) == [hi |-> hi, lo |-> lo]

MillisDiv(t, d) ==
    Millis(t.hi \div d, ((t.hi % d) * 1000000 + t.lo) \div d)

MillisMod10(t) == t.lo % 10

DigitChar(d) == <<"0", "1", "2", "3", "4", "5", "6", "7", "8", "9">>[d + 1]

RECURSIVE NumberToString(_)
\* the decimal digits of a non-negative integer, as a template literal prints it
NumberToString(t) ==
    IF t.hi = 0 /\ t.lo < 10 THEN <<DigitChar(t.lo)>>
    ELSE Append(NumberToString(MillisDiv(t, 10)), DigitChar(MillisMod10(t)))

\* the type canvasToBlob asks toBlob for
BlobType == <<"i","m","a","g","e","/","p","n","g">>

\* generateFilename taking the timestamp in seconds
generateFilename_seconds(timestamp) ==
    <<"i","m","a","g","e","-","w","i","t","h","-","b","g","-">>
        \o NumberToString(MillisDiv(timestamp, 1000)) \o <<".","p","n","g">>

\* generateFilename, with timestamp = Date.now()
generateFilename(timestamp) ==
    <<"i","m","a","g","e","-","w","i","t","h","-","b","g","-">>
        \o NumberToString(timestamp) \o <<".","p","n","g">>

\* what a run of handleDownloadClick leaves: its alerts, its console errors,
\* whether it created a canvas, and the encoding it started (if any)
Ran(a, e, canvas, download) ==
    [alerts |-> a, errors |-> e, canvas |-> canvas, download |-> download]

\* handleDownloadClick without its test of the two getters
handleDownloadClick_unguarded(c, imgs, image, uploaded, n) ==
    IF DownloadRender(c, imgs, image, uploaded, n).cv.threw
    THEN Ran(<<"Download failed. Please try again.">>,
             <<"Download failed: TypeError">>, TRUE, NoDownload)
    ELSE Ran(<<>>, <<>>, TRUE, DownloadRender(c, imgs, image, uploaded, n))

\* run n of handleDownloadClick, up to canvas.toBlob
handleDownloadClick(c, imgs, image, uploaded, n) ==
    IF uploaded = Null \/ image = Null
    THEN Ran(<<"Please upload an image first.">>, <<>>, FALSE, NoDownload)
    ELSE LET d == DownloadRender(c, imgs, image, uploaded, n)
         IN  IF d.cv.threw
             THEN Ran(<<"Download failed. Please try again.">>,
                      <<"Download failed: TypeError">>, TRUE, NoDownload)
             ELSE Ran(<<>>, <<>>, TRUE, d)

\* the state a run of handleDownloadClick leaves
RunDownloadClick ==
    LET n   == click.n + 1
        ran == handleDownloadClick(controls, images, imageElement, uploadedImage, n)
    IN  /\ click' = [n |-> n, canvas |-> ran.canvas,
                     encoding |-> ran.download.status = "encoding"]
        /\ alerts' = ran.alerts
        /\ errors' = ran.errors
        /\ IF ran.download.status = "encoding"
           THEN /\ FreeSlots # {}
                /\ LET k == CHOOSE i \in FreeSlots : \A j \in FreeSlots : i <= j
                   IN  downloads' = [downloads EXCEPT ![k] = ran.download]
           ELSE UNCHANGED downloads
        /\ UNCHANGED <<controls, focus, uploadedImage, imageElement, images,
                       uploads, preview, downloadEnabled, promptShown,
                       files, failed, geo, previewDownloadCalls>>

\* click on the download button (a disabled button gets no click)
ClickDownload ==
    /\ Tick
    /\ downloadEnabled
    /\ RunDownloadClick

\* handleDownloadClick called as a function (it is exported and put on window)
CallHandleDownloadClick ==
    /\ Tick
    /\ RunDownloadClick

\* canvasToBlob resolving with whatever the callback is handed
canvasToBlob_resolveNull(canvas, blob) ==
    [resolved |-> TRUE, blob |-> canvas, error |-> ""]

\* canvasToBlob: the promise a toBlob callback settles
canvasToBlob(canvas, blob) ==
    IF blob
    THEN [resolved |-> TRUE, blob |-> canvas, error |-> ""]
    ELSE [resolved |-> FALSE, blob |-> canvas,
          error |-> "Failed to convert canvas to blob"]

\* a call made by triggerDownload: on URL, on document or on its link
DomCall(op, url, name) == [op |-> op, url |-> url, name |-> name]

\* the calls of triggerDownload, url being the object URL it is handed
LinkCalls(url, filename) ==
    << DomCall("createObjectURL", url, <<>>),
       DomCall("createElement", 0, <<>>),
       DomCall("href", url, <<>>),
       DomCall("download", 0, filename),
       DomCall("click", 0, <<>>),
       DomCall("revokeObjectURL", url, <<>>) >>

\* one more file saved by run n: what it holds, its name, and the calls made
Saved(saved, blob, filename, n, calls) ==
    Append(saved, [click |-> n, cv |-> blob, name |-> filename, calls |-> calls])

\* triggerDownload clicking its link twice
triggerDownload_twice(saved, blob, filename, n) ==
    Saved(Saved(saved, blob, filename, n, LinkCalls(Len(saved) + 1, filename)),
          blob, filename, n, LinkCalls(Len(saved) + 2, filename))

\* triggerDownload leaving its object URL behind
triggerDownload_noRevoke(saved, blob, filename, n) ==
    Saved(saved, blob, filename, n,
          SubSeq(LinkCalls(Len(saved) + 1, filename), 1, 5))

\* triggerDownload: one file saved, holding the blob of run n; every call of
\* URL.createObjectURL returns a URL of its own
triggerDownload(saved, blob, filename, n) ==
    Saved(saved, blob, filename, n, LinkCalls(Len(saved) + 1, filename))

\* Date.now() in a task: the clock advances as the tasks are handled
Now == Millis(1762214, 400000 + events)

\* the toBlob callback of download k, with a blob or with null: the rest of
\* handleDownloadClick
BlobCallback(k, blob) ==
    LET d == downloads[k]
        p == canvasToBlob(d.cv, blob)
    IN  /\ downloads[k].status = "encoding"
        /\ downloads' = [downloads EXCEPT ![k] = NoDownload]
        /\ IF p.resolved
           THEN /\ files' = triggerDownload(files, p.blob, generateFilename(Now),
                                            d.click)
                /\ alerts' = <<>>
                /\ errors' = <<>>
                /\ UNCHANGED failed
           ELSE /\ alerts' = <<"Download failed. Please try again.">>
                /\ errors' = <<"Download failed: " \o p.error>>
                /\ failed' = failed \cup {d.click}
                /\ UNCHANGED files
        /\ UNCHANGED <<controls, focus, uploadedImage, imageElement, images,
                       uploads, preview, downloadEnabled, promptShown, click, geo,
                       previewDownloadCalls>>

\* BlobDone encoding the composite of the image and the settings current when the
\* callback runs, not the canvas drawn at the click
BlobDone_rerendered(k) ==
    /\ Tick
    /\ downloads[k].status = "encoding"
    /\ downloads' = [downloads EXCEPT ![k] = NoDownload]
    /\ files' = triggerDownload(files,
                                DownloadRender(controls, images, imageElement,
                                               uploadedImage, downloads[k].click).cv,
                                generateFilename(Now), downloads[k].click)
    /\ alerts' = <<>>
    /\ errors' = <<>>
    /\ UNCHANGED <<controls, focus, uploadedImage, imageElement, images, uploads,
                   preview, downloadEnabled, promptShown, click, failed, geo,
                   previewDownloadCalls>>

\* the toBlob callback of download k with a blob: triggerDownload
BlobDone(k) ==
    /\ Tick
    /\ BlobCallback(k, TRUE)

\* the toBlob callback of download k with no blob
BlobFail(k) ==
    /\ Tick
    /\ BlobCallback(k, FALSE)

FileLists == {<<>>} \cup {<<f>> : f \in Files}

Next ==
    \/ \E f \in NumberInputs : FocusField(f)
    \/ BlurField
    \/ \E f \in {"width", "height"}, t \in WidthTexts \cup HeightTexts : TypeSize(f, t)
    \/ \E t \in BorderTexts : TypeBorderWidth(t)
    \/ \E t \in ScaleTexts : SlideScale(t)
    \/ \E col \in Colors : PickColor(col)
    \/ \E col \in Colors : PickBorderColor(col)
    \/ \E t \in BackgroundTypes : ChooseBackgroundType(t)
    \/ \E list \in FileLists : SelectFile(list)
    \/ \E list \in FileLists : DropFile(list)
    \/ \E u \in UploadIds : ReadDone(u)
    \/ \E u \in UploadIds : ReadFail(u)
    \/ \E u \in UploadIds, size \in ImageSizes : DecodeDone(u, size)
    \/ \E u \in UploadIds : DecodeFail(u)
    \/ ClickDownload
    \/ \E k \in DownloadSlots : BlobDone(k)
    \/ \E k \in DownloadSlots : BlobFail(k)

Spec == Init /\ [][Next]_vars

\* the page with handleDownloadClick also called as a function
DirectNext ==
    \/ Next
    \/ CallHandleDownloadClick

DirectSpec == Init /\ [][DirectNext]_vars

(***************************************************************************)
(* The geometry of canvasRenderer.js and downloadManager.js on its own:     *)
(* the functions applied to sample sizes.                                   *)
(***************************************************************************)
\* natural widths and heights of images, and widths of scaled images
GeoImageWidths == {45, 97, 200, 801}

GeoImageHeights == {50, 150, 601}

\* canvas widths and heights (valid sizes)
GeoCanvasWidths == {100, 128, 800}

GeoCanvasHeights == {100, 600}

\* scale percentages (valid scales)
GeoScales == {25, 70, 100, 200}

GeoInputs ==
    [fn : {"input"}, iw : GeoImageWidths, ih : GeoImageHeights,
     cw : GeoCanvasWidths, ch : GeoCanvasHeights, scale : GeoScales,
     out : {<<>>}]

GeoInit == PageInit /\ geo \in GeoInputs

\* a decoded image of the natural size of the input
GeoImages ==
    [u \in UploadIds |-> [state |-> "loaded", w |-> geo.iw, h |-> geo.ih]]

GeoSettings ==
    [width |-> I(geo.cw), height |-> I(geo.ch), scale |-> I(geo.scale),
     backgroundColor |-> White, backgroundType |-> "color",
     border |-> [width |-> I(0), color |-> White]]

\* the drawImage calls of a canvas
DrawImageCalls(cv) == SelectSeq(cv.calls, LAMBDA c : c.op = "drawImage")

GeoCall(fn, out) ==
    /\ geo.fn = "input"
    /\ geo' = [geo EXCEPT !.fn = fn, !.out = out]
    /\ UNCHANGED <<controls, focus, uploadedImage, imageElement, images, uploads,
                   preview, downloads, downloadEnabled, promptShown, alerts,
                   errors, click, files, failed, previewDownloadCalls, events>>

GeoScaledDimensions ==
    GeoCall("calculateScaledDimensions",
            calculateScaledDimensions(I(geo.iw), I(geo.ih), I(geo.scale)))

GeoCenterPosition ==
    GeoCall("calculateCenterPosition",
            calculateCenterPosition(I(geo.cw), I(geo.ch), I(geo.iw), I(geo.ih)))

GeoBlurScale ==
    GeoCall("calculateBlurScale",
            calculateBlurScale(I(geo.iw), I(geo.ih), I(geo.cw), I(geo.ch)))

GeoDrawBlurredBackground ==
    GeoCall("drawBlurredBackground",
            DrawImageCalls(drawBlurredBackground(
                updateCanvasDimensions(PageCanvas, I(geo.cw), I(geo.ch)),
                GeoImages, 1, I(geo.cw), I(geo.ch))))

GeoRenderToDownloadCanvas ==
    GeoCall("renderToDownloadCanvas",
            DrawImageCalls(renderToDownloadCanvas(
                createDownloadCanvas(GeoSettings), GeoImages, 1, GeoSettings)))

\* clock values: 10^12 - 1, 10^12, three times of day, 10^13 - 1
GeoClocks ==
    { Millis(999999, 999999), Millis(1000000, 0), Millis(1762214, 400123),
      Millis(1762214, 7), Millis(1700000, 0), Millis(9999999, 999999) }

GeoGenerateFilename ==
    \E now \in GeoClocks :
        GeoCall("generateFilename", [now |-> now, name |-> generateFilename(now)])

GeoNext ==
    \/ GeoGenerateFilename
    \/ GeoScaledDimensions
    \/ GeoCenterPosition
    \/ GeoBlurScale
    \/ GeoDrawBlurredBackground
    \/ GeoRenderToDownloadCanvas

GeoSpec == GeoInit /\ [][GeoNext]_vars

(***************************************************************************)
(* What the claims speak of.  Every render passes through a state in which *)
(* it is the last render of its canvas, so a property of the renders of a  *)
(* state is a property of every render.                                    *)
(***************************************************************************)
PendingDownloads == {k \in DownloadSlots : downloads[k].status = "encoding"}

CallsOf(cv) == {cv.calls[i] : i \in 1..Len(cv.calls)}

IsDraw(call) == call.op \in {"clearRect", "fillRect", "drawImage", "strokeRect"}

\* the draw operations of a canvas, in order, with their arguments
DrawArgs(cv) ==
    LET draws == SelectSeq(cv.calls, IsDraw)
    IN  [i \in 1..Len(draws) |->
            [op |-> draws[i].op, image |-> draws[i].image,
             x |-> draws[i].x, y |-> draws[i].y,
             w |-> draws[i].w, h |-> draws[i].h]]

InRange(a, lo, hi) == IsInteger(a) /\ a.n >= lo /\ a.n <= hi

ForegroundCalls(cv) == {c \in CallsOf(cv) : c.by = "drawImageOnCanvas"}

StrokeCalls(cv) == {c \in CallsOf(cv) : c.op = "strokeRect"}

\* C1 (as claimed): whenever a download was rendered from the settings and the
\* decoded image that the preview was last rendered from, the export canvas got
\* the same sequence of draw operations, with the same arguments, as the preview.
C1_PreviewEqualsExport ==
    \A k \in PendingDownloads :
        ( /\ downloads[k].settings = preview.settings
          /\ downloads[k].image = preview.image
          /\ downloads[k].uploaded = preview.uploaded
          /\ downloads[k].decoded = "loaded"
          /\ preview.decoded = "loaded" )
        => DrawArgs(downloads[k].cv) = DrawArgs(preview.cv)

\* C2 (as claimed): no drawImage, on the preview or on an export canvas, is ever
\* issued with an image element whose decode has not completed successfully.
C2_OnlyDecodedImagesDrawn ==
    /\ \A c \in CallsOf(preview.cv) : c.op = "drawImage" => c.decoded = "loaded"
    /\ \A k \in PendingDownloads :
          \A c \in CallsOf(downloads[k].cv) : c.op = "drawImage" => c.decoded = "loaded"

SettingsInRange(st) ==
    /\ InRange(st.width, MIN_SIZE, MAX_SIZE)
    /\ InRange(st.height, MIN_SIZE, MAX_SIZE)
    /\ InRange(st.scale, MIN_SCALE, MAX_SCALE)
    /\ InRange(st.border.width, MIN_BORDER_WIDTH, MAX_BORDER_WIDTH)

\* C3 (as claimed): every render, of the preview or of a download, runs with
\* width and height integers in [100,2000], scale an integer in [25,200] and
\* border width an integer in [0,50].
C3_RendersUseValidSettings ==
    /\ SettingsInRange(preview.settings)
    /\ \A k \in PendingDownloads : SettingsInRange(downloads[k].settings)

\* C4 (as claimed): the current image is absent before the first upload and
\* after a failed decode, and the element and the data are only ever replaced
\* together, by an upload whose read and decode succeeded: so in every state
\* either both are null or both are those of one upload whose image is decoded.
C4_SourceImageLifecycle ==
    \/ imageElement = Null /\ uploadedImage = Null
    \/ /\ imageElement # Null
       /\ imageElement = uploadedImage
       /\ images[imageElement].state = "loaded"

SizedLike(cv, st) ==
    /\ Len(cv.calls) > 0 /\ cv.calls[1].op = "resize"
    /\ \A i \in 2..Len(cv.calls) :
          /\ IsDraw(cv.calls[i])
          /\ I(cv.calls[i].cw) = st.width
          /\ I(cv.calls[i].ch) = st.height

\* C5 (as claimed): at every draw call on the preview canvas or on an export
\* canvas, the canvas has the width and height of the settings of that render,
\* and the sizing of the canvas precedes the first draw.
C5_CanvasSizedBeforeDraw ==
    /\ SizedLike(preview.cv, preview.settings)
    /\ \A k \in PendingDownloads : SizedLike(downloads[k].cv, downloads[k].settings)

Ops(cv) == [i \in 1..Len(cv.calls) |-> cv.calls[i].op]

Bys(cv) == [i \in 1..Len(cv.calls) |-> cv.calls[i].by]

\* the calls of the image part of a render: the image, then the border if any
ImagePart(r) ==
    IF ~(r.image # Null /\ r.uploaded # Null) THEN <<>>
    ELSE IF NumGt(r.settings.border.width, I(0))
    THEN <<"drawImageOnCanvas", "drawImageBorder">>
    ELSE <<"drawImageOnCanvas">>

\* C6: every updatePreview issues, in this order: the canvas resize, the clear,
\* one background operation (the colour fill or the blurred image draw, never
\* both), then the foreground drawImage if and only if both getImageElement and
\* getUploadedImage gave an image, then the border stroke (if the border has a
\* width); nothing of the background comes after the foreground or the border.
C6_PreviewOrder ==
    LET cv == preview.cv
    IN  /\ Len(cv.calls) >= 3
        /\ cv.calls[1].op = "resize"
        /\ cv.calls[2].op = "clearRect"
        /\ \/ cv.calls[3].op = "fillRect" /\ cv.calls[3].by = "drawBackground"
           \/ cv.calls[3].op = "drawImage" /\ cv.calls[3].by = "drawBlurredBackground"
        /\ cv.calls[2].by = cv.calls[3].by
        /\ SubSeq(Bys(cv), 4, Len(cv.calls)) = ImagePart(preview)
        /\ \A i \in 4..Len(cv.calls) :
              cv.calls[i].op = IF cv.calls[i].by = "drawImageOnCanvas"
                               THEN "drawImage" ELSE "strokeRect"

\* C6 witness: a preview with the blurred background, the image and the border
C6_Witness ==
    Ops(preview.cv) = <<"resize", "clearRect", "drawImage", "drawImage", "strokeRect">>

\* C7: when getImageElement and getUploadedImage both give null, updatePreview,
\* whatever the background type and the border width, resizes the canvas, clears
\* and fills it with the background colour, issues no drawImage and no
\* strokeRect, and raises no error.
C7_NoImageRender ==
    (preview.image = Null /\ preview.uploaded = Null) =>
        LET cv == preview.cv
            st == preview.settings
        IN  /\ Ops(cv) = <<"resize", "clearRect", "fillRect">>
            /\ cv.calls[3].fillStyle = st.backgroundColor
            /\ cv.calls[3].x = I(0) /\ cv.calls[3].y = I(0)
            /\ cv.calls[3].w = st.width /\ cv.calls[3].h = st.height
            /\ cv.calls[3].cw = CanvasDim(st.width, 300)
            /\ cv.calls[3].ch = CanvasDim(st.height, 150)
            /\ ~cv.threw

\* C7 witness: a render without image, image background type, no default border
C7_Witness ==
    /\ preview.image = Null /\ preview.uploaded = Null
    /\ preview.settings.backgroundType = "image"
    /\ preview.settings.border.width = I(5)
    /\ Len(preview.cv.calls) = 3

\* the calls a render's background renderer issued
BackgroundCalls(cv) ==
    {c \in CallsOf(cv) : c.by \in {"drawBackground", "drawBlurredBackground"}}

Unfiltered(cv) ==
    /\ cv.filter = "none"
    /\ \A c \in CallsOf(cv) :
          c.filter # "none" => (c.op = "drawImage" /\ c.by = "drawBlurredBackground")

\* C9: the blur filter is set only during the background image draw: after
\* every render the filter of the canvas is 'none', and the foreground
\* drawImage and the border strokeRect of every render (of the preview, whatever
\* was rendered on it before, and of a download) run with filter 'none'.
C9_BlurDoesNotLeak ==
    /\ Unfiltered(preview.cv)
    /\ \A k \in PendingDownloads : Unfiltered(downloads[k].cv)
    /\ \A c \in CallsOf(preview.cv) :
          c.by = "drawBlurredBackground" /\ c.op = "drawImage" => c.filter = "blur(10px)"

\* C9 witness: a render with a blurred background, the image and the border
C9_Witness ==
    /\ \E c \in CallsOf(preview.cv) : c.filter = "blur(10px)"
    /\ \E c \in ForegroundCalls(preview.cv) : c.filter = "none"
    /\ \E c \in StrokeCalls(preview.cv) : c.filter = "none"

BlurDraws(cv) ==
    {c \in CallsOf(cv) : c.op = "drawImage" /\ c.by = "drawBlurredBackground"}

\* C11 (as claimed): for positive image and canvas sizes, calculateBlurScale
\* returns max(W/iw, H/ih), and the rectangle (x, y, w, h) drawBlurredBackground
\* hands to drawImage covers the canvas: x <= 0, y <= 0, x + w >= W, y + h >= H,
\* it fits exactly on the axis of the larger ratio, and it is centred:
\* x = (W - w)/2, y = (H - h)/2.
C11_BlurCoversSurface ==
    LET W  == I(geo.cw)
        H  == I(geo.ch)
        sx == NumDiv(W, I(geo.iw))
        sy == NumDiv(H, I(geo.ih))
    IN  /\ geo.fn = "calculateBlurScale" => geo.out = MathMax(sx, sy)
        /\ geo.fn = "drawBlurredBackground" =>
              /\ Len(geo.out) = 1
              /\ LET c == geo.out[1]
                 IN  /\ NumGe(I(0), c.x) /\ NumGe(I(0), c.y)
                     /\ NumGe(NumAdd(c.x, c.w), W) /\ NumGe(NumAdd(c.y, c.h), H)
                     /\ NumGe(sx, sy) => (c.w = W /\ c.x = I(0))
                     /\ NumGe(sy, sx) => (c.h = H /\ c.y = I(0))
                     /\ c.x = NumDiv(NumSub(W, c.w), I(2))
                     /\ c.y = NumDiv(NumSub(H, c.h), I(2))

\* C12 (as claimed): the blurred background renderer never issues a drawImage
\* whose position or size is not finite (so never computes a cover scale that is
\* not finite), also when the width or height of the image it is given is zero.
C12_ZeroSizeGuarded ==
    \A c \in BlurDraws(preview.cv) :
        IsFinite(c.x) /\ IsFinite(c.y) /\ IsFinite(c.w) /\ IsFinite(c.h)

\* C13 (as claimed): calculateCenterPosition returns x = round((W - w)/2) and
\* y = round((H - h)/2), and x is negative whenever the content is wider than the
\* surface, y whenever it is taller, a difference of 1 included.
C13_CenterPosition ==
    geo.fn = "calculateCenterPosition" =>
        /\ geo.out.x = MathRound(Fin(geo.cw - geo.iw, 2))
        /\ geo.out.y = MathRound(Fin(geo.ch - geo.ih, 2))
        /\ geo.iw > geo.cw => NumGt(I(0), geo.out.x)
        /\ geo.ih > geo.ch => NumGt(I(0), geo.out.y)

\* round(a * s / 100) for naturals a and s, halves rounded up
RoundPercent(a, s) == (2 * a * s + 100) \div 200

\* C14 (as claimed): for natural sizes w, h > 0 and a scale s in [25,200],
\* calculateScaledDimensions returns (round(w*s/100), round(h*s/100)), both >= 0,
\* at s = 100 exactly (w, h), and renderToDownloadCanvas draws the image with the
\* same width and height for the same inputs.
C14_ScaledDimensions ==
    /\ geo.fn = "calculateScaledDimensions" =>
          /\ geo.out.scaledWidth = I(RoundPercent(geo.iw, geo.scale))
          /\ geo.out.scaledHeight = I(RoundPercent(geo.ih, geo.scale))
          /\ NumGe(geo.out.scaledWidth, I(0)) /\ NumGe(geo.out.scaledHeight, I(0))
          /\ geo.scale = 100 =>
                geo.out = [scaledWidth |-> I(geo.iw), scaledHeight |-> I(geo.ih)]
    /\ geo.fn = "renderToDownloadCanvas" =>
          LET dims == calculateScaledDimensions(I(geo.iw), I(geo.ih), I(geo.scale))
          IN  /\ Len(geo.out) = 1
              /\ geo.out[1].w = dims.scaledWidth
              /\ geo.out[1].h = dims.scaledHeight

\* the images as the render r saw them: an image that was decoded then has kept
\* its size since, one that was not had width and height 0
ImagesAt(r) ==
    [u \in UploadIds |->
        IF r.decoded = "loaded" THEN images[u]
        ELSE [state |-> r.decoded, w |-> 0, h |-> 0]]

\* C15: a render is stateless and idempotent: the calls updatePreview issued and
\* the canvas state it left (size, fill and stroke style, line width, filter) are
\* those of the same render, with the same settings and the same image, on a
\* canvas fresh from the page, whatever renders came before.
C15_RenderIsStateless ==
    preview.cv = PreviewWith(PageCanvas, preview.settings, ImagesAt(preview),
                             preview.image, preview.uploaded)

\* a render of a decoded image with its border at a scale other than the default,
\* after the render of the empty page and the render at the image's onload
C15_Witness ==
    /\ preview.image # Null /\ preview.uploaded # Null
    /\ preview.decoded = "loaded"
    /\ preview.settings.scale # I(100)
    /\ StrokeCalls(preview.cv) # {}
    /\ ForegroundCalls(preview.cv) # {}

\* the canvas a click in the current state draws for its download
ExportNow ==
    renderToDownloadCanvas(createDownloadCanvas(getCanvasSettings(controls)),
                           images, imageElement, getCanvasSettings(controls))

\* C16: a download exports the composite of the image and the settings current
\* at its click.  In every step: a download that starts holds the canvas drawn
\* from the current image and settings; a download in flight is left as it is by
\* every upload step, every settings change and every other click or callback;
\* and the file a download delivers holds the canvas drawn at its click.
C16_DownloadSnapshot ==
    [][\A k \in DownloadSlots :
          /\ (downloads[k].status = "free" /\ downloads'[k].status = "encoding") =>
                /\ downloads'[k].cv = ExportNow
                /\ downloads'[k].settings = getCanvasSettings(controls)
                /\ downloads'[k].image = imageElement
          /\ (downloads[k].status = "encoding" /\ downloads'[k].status = "encoding") =>
                downloads'[k] = downloads[k]
          /\ (downloads[k].status = "encoding" /\ downloads'[k].status = "free") =>
                \/ /\ Len(files') = Len(files) + 1
                   /\ SubSeq(files', 1, Len(files)) = files
                   /\ files'[Len(files')].click = downloads[k].click
                   /\ files'[Len(files')].cv = downloads[k].cv
                \/ files' = files /\ failed' = failed \cup {downloads[k].click}
      ]_vars

\* the first click's file has been saved while the second click's download,
\* started while the first was in flight (it took the second slot) and after the
\* image or the settings had changed, is still being encoded
C16_Witness ==
    /\ Len(files) = 1 /\ files[1].click = 1
    /\ \E k \in DownloadSlots :
          /\ k > 1
          /\ downloads[k].status = "encoding"
          /\ downloads[k].click = 2
          /\ downloads[k].cv # files[1].cv

\* the clicks whose file has been saved, and the clicks still being encoded
DeliveredClicks == {files[i].click : i \in DOMAIN files}
PendingClicks == {downloads[k].click : k \in PendingDownloads}

\* C17: every click on the enabled button is in exactly one of three places: its
\* encoding is pending, its encoding failed, or it has saved a file; and no two
\* saved files come from the same click.  So k clicks whose encodings succeed
\* save exactly k files, overlapping clicks included.
C17_OneFilePerClick ==
    /\ Cardinality(DeliveredClicks) = Len(files)
    /\ DeliveredClicks \cup failed \cup PendingClicks = 1..click.n
    /\ DeliveredClicks \cap failed = {}
    /\ DeliveredClicks \cap PendingClicks = {}
    /\ failed \cap PendingClicks = {}
    /\ Cardinality(PendingClicks) = Cardinality(PendingDownloads)

\* two clicks, the second made while the first was being encoded (its callback
\* ran first), have saved two files
C17_Witness ==
    /\ click.n = 2
    /\ Len(files) = 2
    /\ files[1].click = 2
    /\ files[2].click = 1
    /\ PendingDownloads = {}

C19_EncodingFailure ==
    [][(\E k \in DownloadSlots : BlobFail(k)) =>
          /\ errors' = <<"Download failed: Failed to convert canvas to blob">>
          /\ alerts' = <<"Download failed. Please try again.">>
          /\ files' = files
          /\ uploadedImage' = uploadedImage
          /\ imageElement' = imageElement
          /\ images' = images
          /\ controls' = controls
          /\ preview' = preview
          /\ downloadEnabled' = downloadEnabled
      ]_vars

\* an encoding has failed while an image is loaded and shown: the alert is up,
\* the click is recorded as failed and nothing has been saved
C19_Witness ==
    /\ failed # {}
    /\ files = <<>>
    /\ alerts = <<"Download failed. Please try again.">>
    /\ errors = <<"Download failed: Failed to convert canvas to blob">>
    /\ uploadedImage # Null
    /\ ForegroundCalls(preview.cv) # {}

\* C20: the download button is disabled until an upload's decode completes, and
\* whenever it is enabled a decoded image is current: getUploadedImage and
\* getImageElement are both non-null and the element is decoded.
C20_EnabledMeansDecoded ==
    /\ events = 0 => ~downloadEnabled
    /\ downloadEnabled =>
          /\ uploadedImage # Null
          /\ imageElement # Null
          /\ images[imageElement].state = "loaded"

\* what the file input and the drop zone hand to handleImageUpload
Selected(list) == SelectFile(list) \/ DropFile(list)

\* what a rejected or empty selection leaves alone
UploadStateUnchanged ==
    /\ uploadedImage' = uploadedImage
    /\ imageElement' = imageElement
    /\ images' = images
    /\ uploads' = uploads
    /\ downloadEnabled' = downloadEnabled
    /\ preview' = preview

\* C21: validateImageFile accepts a file exactly when its type is one of
\* image/jpeg, image/jpg, image/png, image/gif, image/webp and its size is at
\* most 5 MB (5242880 bytes).  handleImageUpload starts reading an accepted
\* file; for a rejected file it shows one alert (the file-type message when the
\* type is not allowed, the size message otherwise) and leaves uploadedImage,
\* imageElement, the download button and the preview as they were; with no
\* file it shows nothing and changes nothing.
C21_FileValidation ==
    [][\A list \in FileLists :
          Selected(list) =>
             IF Len(list) = 0
             THEN alerts' = <<>> /\ UploadStateUnchanged
             ELSE IF list[1].type \notin {"image/jpeg", "image/jpg", "image/png",
                                          "image/gif", "image/webp"}
             THEN /\ ~validateImageFile(list[1])
                  /\ alerts' = <<"Please select a valid image file (JPG, PNG, GIF, WebP)">>
                  /\ UploadStateUnchanged
             ELSE IF list[1].size > 5 * 1024 * 1024
             THEN /\ ~validateImageFile(list[1])
                  /\ alerts' = <<"File size exceeds 5MB limit. Please select a smaller file.">>
                  /\ UploadStateUnchanged
             ELSE /\ validateImageFile(list[1])
                  /\ alerts' = <<>>
                  /\ \E u \in UploadIds :
                        uploads[u] = "idle" /\ uploads'[u] = "reading"
      ]_vars

\* a file over 5 MB has been rejected while an image is loaded and shown
C21_Witness ==
    /\ alerts = <<"File size exceeds 5MB limit. Please select a smaller file.">>
    /\ uploadedImage # Null
    /\ downloadEnabled
    /\ ForegroundCalls(preview.cv) # {}

\* C22: once an upload's image has been decoded, window.enablePreviewDownloadButton
\* has been called.
C22_PreviewDownloadEnabled ==
    (\E u \in UploadIds : uploads[u] = "done") => previewDownloadCalls > 0

\* the text parses to an integer between lo and hi
ParsesInto(t, lo, hi) ==
    /\ ~IsNaN(parseInt(t))
    /\ IsInteger(parseInt(t))
    /\ NumGe(parseInt(t), I(lo))
    /\ NumGe(I(hi), parseInt(t))

\* the render of the preview from the controls a step leaves
RenderedAfter ==
    [cv       |-> PreviewWith(PageCanvas, getCanvasSettings(controls'), images,
                              imageElement, uploadedImage),
     settings |-> getCanvasSettings(controls'),
     image    |-> imageElement,
     uploaded |-> uploadedImage,
     decoded  |-> DecodeState(images, imageElement)]

\* C23: an input event on the width, height or border width input shows no
\* alert and leaves in the control what the user typed; it renders the preview
\* (once, from the controls as they are) if and only if the text parses to an
\* integer in 100..2000 (size) or 0..50 (border width), which is when
\* validateSizeInput / validateBorderWidth accept the parsed value; otherwise
\* the preview is left as it was.
C23_TypingIsSilent ==
    [][/\ \A f \in {"width", "height"}, t \in WidthTexts \cup HeightTexts :
             TypeSize(f, t) =>
                /\ alerts' = <<>>
                /\ controls' = [controls EXCEPT ![f] = t]
                /\ validateSizeInput(parseInt(t)) <=> ParsesInto(t, 100, 2000)
                /\ preview' = IF ParsesInto(t, 100, 2000) THEN RenderedAfter
                              ELSE preview
       /\ \A t \in BorderTexts :
             TypeBorderWidth(t) =>
                /\ alerts' = <<>>
                /\ controls' = [controls EXCEPT !.borderWidth = t]
                /\ validateBorderWidth(parseInt(t)) <=> ParsesInto(t, 0, 50)
                /\ preview' = IF ParsesInto(t, 0, 50) THEN RenderedAfter
                              ELSE preview
      ]_vars

\* the user has typed a height below 100 into the focused input: no alert, the
\* control holds the text, and the preview is still the one of the old height
C23_Witness ==
    /\ focus = "height"
    /\ controls.height = <<"5","0">>
    /\ alerts = <<>>
    /\ preview.settings.height = I(600)
    /\ uploadedImage # Null

\* the number input that has the focus loses it
Blurred == focus # "none" /\ (BlurField \/ \E f \in NumberInputs : FocusField(f))

\* the range and the default of a number input, and the alert of its blur handler
LowestOf(f) == IF f = "borderWidth" THEN 0 ELSE 100

HighestOf(f) == IF f = "borderWidth" THEN 50 ELSE 2000

DefaultOf(f) ==
    IF f = "width" THEN <<"8","0","0">>
    ELSE IF f = "height" THEN <<"6","0","0">>
    ELSE <<"1","0">>

BlurAlertOf(f) ==
    IF f = "borderWidth"
    THEN "Border width must be between 0-50px and must be an integer."
    ELSE "Size must be between 100-2000px and must be an integer."

\* C24: when a number input loses the focus holding an invalid value, its blur
\* handler shows one alert, resets the control to its default (800 for the
\* width, 600 for the height, 10 for the border width) and renders the preview
\* again; holding a valid value, it shows no alert and changes neither the
\* control nor the preview.  Either way the control holds a valid value after
\* the blur, and so does every number input that does not have the focus.
C24_BlurValidates ==
    [][Blurred =>
          /\ IF ParsesInto(controls[focus], LowestOf(focus), HighestOf(focus))
             THEN /\ alerts' = <<>>
                  /\ controls' = controls
                  /\ preview' = preview
             ELSE /\ alerts' = <<BlurAlertOf(focus)>>
                  /\ controls' = [controls EXCEPT ![focus] = DefaultOf(focus)]
                  /\ preview' = RenderedAfter
          /\ \A f \in NumberInputs :
                f # focus' => ParsesInto(controls'[f], LowestOf(f), HighestOf(f))
      ]_vars

\* a size input has lost the focus holding an invalid value while an image is
\* shown: the alert is up, the width control holds 800 and the preview has been
\* rendered with it
C24_Witness ==
    /\ alerts = <<"Size must be between 100-2000px and must be an integer.">>
    /\ focus # "width"
    /\ controls.width = <<"8","0","0">>
    /\ preview.settings.width = I(800)
    /\ ForegroundCalls(preview.cv) # {}

\* '#' followed by exactly 3 or 6 hexadecimal digits
IsHexColor(color) ==
    /\ Len(color) \in {4, 7}
    /\ color[1] = "#"
    /\ \A i \in 2..Len(color) :
          color[i] \in {"0","1","2","3","4","5","6","7","8","9",
                        "a","b","c","d","e","f","A","B","C","D","E","F"}

\* C25: every colour a render of the preview or of a download fills or strokes
\* with is a valid hex colour; an invalid colour in a colour control is
\* rejected by its handler and is never handed to the renderer.
C25_ColorsValid ==
    /\ IsHexColor(preview.settings.backgroundColor)
    /\ IsHexColor(preview.settings.border.color)
    /\ \A c \in CallsOf(preview.cv) :
          /\ c.op = "fillRect" => IsHexColor(c.fillStyle)
          /\ c.op = "strokeRect" => IsHexColor(c.strokeStyle)
    /\ \A k \in PendingDownloads :
          /\ IsHexColor(downloads[k].settings.backgroundColor)
          /\ \A c \in CallsOf(downloads[k].cv) :
                c.op = "fillRect" => IsHexColor(c.fillStyle)

\* the part of a text after its last occurrence of a character
AfterLast(text, ch) ==
    SubSeq(text, 1 + CHOOSE i \in 0..Len(text) :
                        /\ i > 0 => text[i] = ch
                        /\ \A j \in (i + 1)..Len(text) : text[j] # ch,
           Len(text))

\* C26: generateFilename returns 'image-with-bg-', the decimal digits of the
\* clock's milliseconds and '.png'; for a clock in [10^12, 10^13) these are
\* exactly 13 digits, and the extension is the subtype of the 'image/png' that
\* canvasToBlob asks for.
C26_Filename ==
    geo.fn = "generateFilename" =>
        /\ SubSeq(geo.out.name, 1, 14) =
              <<"i","m","a","g","e","-","w","i","t","h","-","b","g","-">>
        /\ AfterLast(geo.out.name, ".") = AfterLast(BlobType, "/")
        /\ AfterLast(geo.out.name, ".") = <<"p","n","g">>
        /\ (geo.out.now.hi >= 1000000 /\ geo.out.now.hi < 10000000) =>
              /\ Len(geo.out.name) = 14 + 13 + 4
              /\ \A i \in 15..27 : geo.out.name[i] \in DigitChars
              /\ geo.out.name[28] = "."
              /\ DigitsToInt(SubSeq(geo.out.name, 15, 21), 7) = geo.out.now.hi
              /\ DigitsToInt(SubSeq(geo.out.name, 22, 27), 6) = geo.out.now.lo

\* a name has been generated at a time whose last six digits start with zeros
C26_Witness ==
    /\ geo.fn = "generateFilename"
    /\ geo.out.now = Millis(1762214, 7)
    /\ Len(geo.out.name) = 31

\* every control holds a valid value
ControlsValid ==
    /\ ParsesInto(controls.width, 100, 2000)
    /\ ParsesInto(controls.height, 100, 2000)
    /\ ParsesInto(controls.scale, 25, 200)
    /\ ParsesInto(controls.borderWidth, 0, 50)
    /\ IsHexColor(controls.bgColor)
    /\ IsHexColor(controls.borderColor)

\* no upload is being read or decoded
NoUploadInFlight == \A u \in UploadIds : uploads[u] \notin {"reading", "decoding"}

\* C27: between events, when no upload is in flight and every control holds a
\* valid value, the last render of the preview used the current values of the
\* controls and the current image.
C27_PreviewIsCurrent ==
    (NoUploadInFlight /\ ControlsValid) =>
        /\ preview.settings = getCanvasSettings(controls)
        /\ preview.image = imageElement
        /\ preview.uploaded = uploadedImage
        /\ preview.decoded = DecodeState(images, imageElement)

\* C28: once every upload started has been read and decoded, in whatever order
\* the reads and decodes completed, the image element and the uploaded image
\* data belong to the same upload, and the preview shows that upload's image.
C28_SameUpload ==
    (\A u \in UploadIds : uploads[u] = "done") =>
        /\ uploadedImage = imageElement
        /\ preview.image = imageElement
        /\ preview.uploaded = uploadedImage

\* C29: the upload prompt is shown (and the preview canvas hidden) after
\* initializeApp, and it is hidden (and the canvas shown) only once an image
\* has been loaded: a rejected file, an empty selection, a failed read or a
\* failed decode leave the prompt shown.
C29_PromptUntilLoaded ==
    /\ events = 0 => promptShown
    /\ ~promptShown => \E u \in UploadIds : uploads[u] = "done"

\* the object URLs that the calls named op of the downloads so far were given
UrlsOf(op) ==
    UNION { {files[i].calls[j].url : j \in {j \in 1..Len(files[i].calls) :
                                              files[i].calls[j].op = op}} :
            i \in DOMAIN files }

\* C30: every triggerDownload creates one object URL for its blob, makes it the
\* href of a link whose download name is the filename it was given, clicks the
\* link once and then revokes that URL, in this order; the URLs of different
\* downloads differ, and after any number of downloads every URL created has
\* been revoked.
C30_ObjectUrls ==
    /\ \A i \in DOMAIN files :
          /\ [j \in 1..Len(files[i].calls) |-> files[i].calls[j].op] =
                <<"createObjectURL", "createElement", "href", "download",
                  "click", "revokeObjectURL">>
          /\ files[i].calls[3].url = files[i].calls[1].url
          /\ files[i].calls[6].url = files[i].calls[1].url
          /\ files[i].calls[4].name = files[i].name
          /\ SubSeq(files[i].name, 1, 14) =
                <<"i","m","a","g","e","-","w","i","t","h","-","b","g","-">>
          /\ \A k \in DOMAIN files :
                files[k].calls[1].url = files[i].calls[1].url => k = i
    /\ UrlsOf("createObjectURL") \ UrlsOf("revokeObjectURL") = {}
    /\ Cardinality(UrlsOf("createObjectURL")) = Len(files)

\* two downloads have saved their files
C30_Witness ==
    /\ Len(files) = 2
    /\ files[1].click # files[2].click
    /\ Cardinality(UrlsOf("revokeObjectURL")) = 2

====
